---------------------------- MODULE Spec2Model ----------------------------
(***************************************************************************)
(* A model of the Hello World MCP server (src/main.py): the three tool     *)
(* handlers, the resource and prompt handlers, the registration of the     *)
(* handlers with the library's Server object, and the process lifecycle    *)
(* (main() and the __main__ block).                                        *)
(*                                                                         *)
(* Representation.  A Python str whose characters matter (echo's message,  *)
(* a language code) is a sequence of one-character strings.  A text the    *)
(* program produces is a sequence of tokens: the literal pieces of the     *)
(* format string, and, between them, the characters of what was            *)
(* interpolated.  The emoji of the literals are left out of the tokens.    *)
(* Identifiers that are only compared for equality (a URI, a prompt name,  *)
(* a tool name, a dict key) are TLA+ strings.  A timestamp is a clock      *)
(* reading; isoformat() renders it as its decimal digits.                  *)
(***************************************************************************)
EXTENDS Integers, Sequences, FiniteSets, TLC

VARIABLES
    pc,               \* where the process is: start, serving, handling, ...
    now,              \* the system clock (datetime.now(timezone.utc))
    SERVER_INFO,      \* the module-level metadata dict, in insertion order
    request_handlers, \* the Server object's table: request kind -> callable
    request,          \* the request being served / last served
    result,           \* what the call made for `request` produced
    log,              \* responses handed to the transport so far
    exc,              \* the exception propagating out of the main loop
    ended_by,         \* how the main loop ended
    cleanups,         \* number of times cleanup() has run
    exit_status       \* the process's exit status (-1 while running)

vars == <<pc, now, SERVER_INFO, request_handlers, request, result, log,
          exc, ended_by, cleanups, exit_status>>

---------------------------------------------------------------------------
(* Bounds of the model. *)

\* clock readings are 0..MaxClock
MaxClock == 2
\* short echo messages: every string over Alphabet up to this length
MaxShortLen == 3
\* long echo messages: lengths MaxMessageLen-LongSpread..MaxMessageLen+LongSpread
LongSpread == 1
\* language arguments: every string over LangChars up to this length
MaxLangLen == 2

(* Program constants. *)

\* echo's limit: len(message) > 1000 is rejected
MaxMessageLen == 1000

---------------------------------------------------------------------------
(* Python values and helpers. *)

\* A Python value passed as an argument: t is the type's name; s holds the
\* characters of a str; n the value of an int; items the (key, value)
\* pairs of a Dict[str, str] in insertion order.
PyStr(chars) == [t |-> "str", s |-> chars, n |-> 0, items |-> <<>>]
PyInt(i) == [t |-> "int", s |-> <<>>, n |-> i, items |-> <<>>]
PyNone == [t |-> "NoneType", s |-> <<>>, n |-> 0, items |-> <<>>]
PyDict(kvs) == [t |-> "dict", s |-> <<>>, n |-> 0, items |-> kvs]

\* Python truthiness: `not message`, `arguments and ...`
Truthy(v) ==
    CASE v.t = "str" -> Len(v.s) > 0
      [] v.t = "int" -> v.n # 0
      [] v.t = "dict" -> Len(v.items) > 0
      [] OTHER -> FALSE

\* `key in d` for a dict
HasKey(d, key) == \E i \in 1..Len(d.items) : d.items[i].k = key

\* d[key] for a dict that has the key
GetItem(d, key) ==
    d.items[CHOOSE i \in 1..Len(d.items) : d.items[i].k = key].v

\* What a call produces: a returned value or a raised exception.
Return(v) == [outcome |-> "return", value |-> v, exc |-> "", msg |-> <<>>]
Raise(class, message) ==
    [outcome |-> "raise", value |-> <<>>, exc |-> class, msg |-> message]
Pending == [outcome |-> "none", value |-> <<>>, exc |-> "", msg |-> <<>>]

\* The exception classes that `except Exception` catches.  KeyboardInterrupt
\* and asyncio.CancelledError derive from BaseException and are not caught.
ExceptionClasses == {"Exception", "TypeError", "ValueError", "OSError"}
IsException(class) == class \in ExceptionClasses

\* str(int): the decimal digits
Digit(d) ==
    CASE d = 0 -> "0" [] d = 1 -> "1" [] d = 2 -> "2" [] d = 3 -> "3"
      [] d = 4 -> "4" [] d = 5 -> "5" [] d = 6 -> "6" [] d = 7 -> "7"
      [] d = 8 -> "8" [] d = 9 -> "9"

RECURSIVE DecStr(_)
DecStr(i) == IF i < 10 THEN <<Digit(i)>> ELSE Append(DecStr(i \div 10), Digit(i % 10))

\* types.TextContent(type="text", text=...)
TextContent(tokens) == [type |-> "text", text |-> tokens]


---------------------------------------------------------------------------
(* Section 2 of main.py: the tool handlers. *)

\* an except clause that catches ValueError alone
ExceptOnlyValueError(body, prefix) ==
    IF body.outcome = "raise" /\ body.exc = "ValueError"
    THEN Return(<<TextContent(<<prefix>> \o body.msg)>>)
    ELSE body

\* The `except Exception as e:` clause of a tool handler: an Exception
\* raised in the try body becomes one text payload, prefix + str(e);
\* anything else the body produced passes through.
ExceptException(body, prefix) ==
    IF body.outcome = "raise" /\ IsException(body.exc)
    THEN Return(<<TextContent(<<prefix>> \o body.msg)>>)
    ELSE body

\* An internal fault raised while a try body runs (fault = "none": no fault).
Faulted(fault) == Raise(fault, <<"internal fault">>)

HelloText == <<"Hello, World from MCP! This is your first MCP server response.">>

hello_world(fault) ==
    ExceptException(
        IF fault # "none" THEN Faulted(fault)
        ELSE Return(<<TextContent(HelloText)>>),
        "Error in hello_world tool: ")

\* datetime.isoformat() of a clock reading
IsoFormat(t) == DecStr(t)

\* the four components are renderings of the one reading `t`
TimeText(t) ==
    <<"Current Time Information:", "\n", "UTC Time: ">> \o DecStr(t) \o <<" UTC">>
    \o <<"\n", "Local Time: ">> \o DecStr(t) \o <<" ", "%Z">>
    \o <<"\n", "ISO Format: ">> \o IsoFormat(t)
    \o <<"\n", "Timestamp: ">> \o DecStr(t)

get_current_time(fault) ==
    ExceptException(
        IF fault # "none" THEN Faulted(fault)
        ELSE Return(<<TextContent(TimeText(now))>>),
        "Error getting current time: ")

\* str.split() splits on runs of whitespace
IsSpace(c) == c \in {" ", "\t", "\n"}

\* message.split() over m[lo..hi]: the maximal runs of non-whitespace
\* characters, in order.  Computed by halving the range (a word that
\* straddles the middle is joined), so that the depth of the recursion
\* stays logarithmic in the length.
RECURSIVE SplitRange(_, _, _)
SplitRange(m, lo, hi) ==
    IF lo > hi THEN <<>>
    ELSE IF lo = hi THEN (IF IsSpace(m[lo]) THEN <<>> ELSE << <<m[lo]>> >>)
    ELSE LET mid == (lo + hi) \div 2
             L == SplitRange(m, lo, mid)
             R == SplitRange(m, mid + 1, hi)
         IN  IF ~IsSpace(m[mid]) /\ ~IsSpace(m[mid + 1])
             THEN SubSeq(L, 1, Len(L) - 1) \o <<L[Len(L)] \o R[1]>> \o Tail(R)
             ELSE L \o R

Split(m) == SplitRange(m, 1, Len(m))

\* len(message.split())
WordCount(m) == Len(Split(m))

\* a reversal that leaves the message as it is
ReverseIdentity(m) == m

\* message[::-1]
Reverse(m) == [i \in 1..Len(m) |-> m[Len(m) + 1 - i]]

NoMessageText ==
    <<"Error: ", "No message provided", " to echo. Please provide a message parameter.">>

TooLongText ==
    <<"Error: Message ", "too long", ". Please provide a message under 1000 characters.">>

\* the f-string of lines 159-163
EchoResponse(m) ==
    <<"Echo Response:", "\n", "Original: ", "\"">> \o m \o <<"\"">>
    \o <<"\n", "Length: ">> \o DecStr(Len(m)) \o <<" characters">>
    \o <<"\n", "Reversed: ", "\"">> \o Reverse(m) \o <<"\"">>
    \o <<"\n", "Word Count: ">> \o DecStr(WordCount(m)) \o <<" words">>

\* a limit that already rejects a message of exactly MaxMessageLen characters
TooLongOffByOne(m) == Len(m) >= MaxMessageLen

\* len(message) > 1000
TooLong(m) == Len(m) > MaxMessageLen

echo(message, fault) ==
    ExceptException(
        IF fault # "none" THEN Faulted(fault)
        ELSE IF ~Truthy(message) THEN Return(<<TextContent(NoMessageText)>>)
        ELSE IF message.t # "str"
             THEN Raise("TypeError", <<"object of type '", message.t, "' has no len()">>)
        ELSE IF TooLong(message.s) THEN Return(<<TextContent(TooLongText)>>)
        ELSE Return(<<TextContent(EchoResponse(message.s))>>),
        "Error in echo tool: ")

---------------------------------------------------------------------------
(* Section 1 of main.py: the static content. *)

\* A value stored in SERVER_INFO: a str (s: its text), a list of str
\* (s: its elements) or an int (n).
PyList(elems) == [t |-> "list", s |-> elems, n |-> 0, items |-> <<>>]

\* SERVER_INFO as built at import time, when the clock read t
ServerInfoAt(t) ==
    << [key |-> "name", value |-> PyStr(<<"Hello World MCP Server">>)],
       [key |-> "version", value |-> PyStr(<<"1.0.0">>)],
       [key |-> "description",
        value |-> PyStr(<<"A simple MCP server for learning purposes">>)],
       [key |-> "features", value |-> PyList(<<"tools", "resources", "prompts">>)],
       [key |-> "tools_count", value |-> PyInt(3)],
       [key |-> "created", value |-> PyStr(IsoFormat(t))] >>

\* GREETING_TEMPLATES, in insertion order; a key is a sequence of characters
GREETING_TEMPLATES ==
    << [k |-> <<"e", "n">>,
        v |-> <<"Hello! I'm a friendly MCP server built for learning purposes. ...">>],
       [k |-> <<"d", "e">>,
        v |-> <<"Hallo! Ich bin ein freundlicher MCP Server, der zu Lernzwecken erstellt wurde. ...">>],
       [k |-> <<"e", "s">>,
        v |-> <<"Hola! Soy un servidor MCP amigable creado con fines de aprendizaje. ...">>] >>

---------------------------------------------------------------------------
(* Section 3 of main.py: the resource handlers. *)

INFO_URI == "server://info"

\* A handler's effect: what it returns or raises, and SERVER_INFO afterwards.
Effect(ret, stored) == [ret |-> ret, stored |-> stored]

\* a list that also carries one descriptor for every read served so far
handle_list_resources_growing ==
    Effect(Return([i \in 1..(1 + Cardinality(log.reads)) |->
                [uri |-> INFO_URI, name |-> "Server Information",
                 description |-> "Detailed information about this MCP server including capabilities and metadata",
                 mimeType |-> "application/json"]]),
           SERVER_INFO)

handle_list_resources ==
    Effect(Return(<< [uri |-> INFO_URI, name |-> "Server Information",
                      description |-> "Detailed information about this MCP server including capabilities and metadata",
                      mimeType |-> "application/json"] >>),
           SERVER_INFO)

\* dict.copy(): a new dict with the same items
DictCopy(d) == d

\* d[key] = value: replaces the value of a key present, appends a new key
DictSet(d, key, value) ==
    IF \E i \in 1..Len(d) : d[i].key = key
    THEN [i \in 1..Len(d) |-> IF d[i].key = key THEN [key |-> key, value |-> value] ELSE d[i]]
    ELSE Append(d, [key |-> key, value |-> value])

\* json.dumps of one stored value
RECURSIVE JsonList(_)
JsonList(elems) ==
    IF elems = <<>> THEN <<>>
    ELSE IF Len(elems) = 1 THEN <<"\"", elems[1], "\"">>
    ELSE <<"\"", elems[1], "\"", ", ">> \o JsonList(Tail(elems))

JsonValue(v) ==
    CASE v.t = "str" -> <<"\"">> \o v.s \o <<"\"">>
      [] v.t = "int" -> DecStr(v.n)
      [] v.t = "list" -> <<"[">> \o JsonList(v.s) \o <<"]">>
      [] OTHER -> <<"null">>

\* json.dumps(d, indent=2): one member per line, in the dict's order
json_dumps(d) == [i \in 1..Len(d) |-> [key |-> d[i].key, value |-> JsonValue(d[i].value)]]

\* a handler that stamps the stored dict itself (no copy)
handle_read_resource_nocopy(uri) ==
    IF uri = INFO_URI
    THEN LET server_info == DictSet(SERVER_INFO, "info_requested_at", PyStr(IsoFormat(now)))
         IN  Effect(Return(json_dumps(server_info)), server_info)
    ELSE Effect(Raise("ValueError", <<"Unknown resource URI: ", uri>>), SERVER_INFO)

\* a handler that stamps `created` as well
handle_read_resource_restamp(uri) ==
    IF uri = INFO_URI
    THEN LET server_info ==
                 DictSet(DictSet(DictCopy(SERVER_INFO), "created", PyStr(IsoFormat(now))),
                         "info_requested_at", PyStr(IsoFormat(now)))
         IN  Effect(Return(json_dumps(server_info)), SERVER_INFO)
    ELSE Effect(Raise("ValueError", <<"Unknown resource URI: ", uri>>), SERVER_INFO)

\* a handler that reports an unknown URI as a text
handle_read_resource_swallow(uri) ==
    IF uri = INFO_URI
    THEN LET server_info ==
                 DictSet(DictCopy(SERVER_INFO), "info_requested_at", PyStr(IsoFormat(now)))
         IN  Effect(Return(json_dumps(server_info)), SERVER_INFO)
    ELSE Effect(Return(<<"Unknown resource URI: ", uri>>), SERVER_INFO)

handle_read_resource(uri) ==
    IF uri = INFO_URI
    THEN LET server_info ==
                 DictSet(DictCopy(SERVER_INFO), "info_requested_at", PyStr(IsoFormat(now)))
         IN  Effect(Return(json_dumps(server_info)), SERVER_INFO)
    ELSE Effect(Raise("ValueError", <<"Unknown resource URI: ", uri>>), SERVER_INFO)

---------------------------------------------------------------------------
(* Section 4 of main.py: the prompt handlers. *)

handle_list_prompts ==
    Effect(Return(<< [name |-> "greeting",
                      description |-> "Generate a friendly greeting message in multiple languages",
                      arguments |-> << [name |-> "language",
                                        description |-> "Language code for the greeting (en, de, es)",
                                        required |-> FALSE] >>] >>),
           SERVER_INFO)

\* str.lower(), on the characters the model draws language codes from
LowerChar(c) ==
    CASE c = "D" -> "d" [] c = "E" -> "e" [] c = "N" -> "n" [] c = "S" -> "s"
      [] OTHER -> c

Lower(chars) == [i \in 1..Len(chars) |-> LowerChar(chars[i])]

\* `lang in GREETING_TEMPLATES`
InTemplates(lang) == \E i \in 1..Len(GREETING_TEMPLATES) : GREETING_TEMPLATES[i].k = lang

\* GREETING_TEMPLATES[lang]
TemplateOf(lang) ==
    GREETING_TEMPLATES[CHOOSE i \in 1..Len(GREETING_TEMPLATES) : GREETING_TEMPLATES[i].k = lang].v

\* ", ".join(GREETING_TEMPLATES.keys()) from the i-th key on
RECURSIVE JoinKeys(_)
JoinKeys(i) ==
    IF i > Len(GREETING_TEMPLATES) THEN <<>>
    ELSE IF i = Len(GREETING_TEMPLATES) THEN GREETING_TEMPLATES[i].k
    ELSE GREETING_TEMPLATES[i].k \o <<", ">> \o JoinKeys(i + 1)

\* a resolution that forgets to lower-case the requested code
ResolveLanguageNoLower(arguments) ==
    IF Truthy(arguments) /\ HasKey(arguments, "language")
    THEN LET requested_lang == GetItem(arguments, "language")
         IN  IF InTemplates(requested_lang) THEN requested_lang ELSE <<"e", "n">>
    ELSE <<"e", "n">>

\* lines 268-272: the language the greeting is given in
ResolveLanguage(arguments) ==
    IF Truthy(arguments) /\ HasKey(arguments, "language")
    THEN LET requested_lang == Lower(GetItem(arguments, "language"))
         IN  IF InTemplates(requested_lang) THEN requested_lang ELSE <<"e", "n">>
    ELSE <<"e", "n">>

handle_get_prompt(name, arguments) ==
    IF name = "greeting"
    THEN LET language == ResolveLanguage(arguments)
             greeting_text == TemplateOf(language)
             available_langs == JoinKeys(1)
             footer == <<"\n\n(Available languages: ">> \o available_langs \o <<")">>
         IN  Effect(Return([description |-> <<"Friendly greeting in ">> \o language,
                            messages |-> << [role |-> "user",
                                             content |-> TextContent(greeting_text \o footer)] >>]),
                    SERVER_INFO)
    ELSE Effect(Raise("ValueError", <<"Unknown prompt: ", name>>), SERVER_INFO)

---------------------------------------------------------------------------
(* Registration: the decorators of lines 78, 97, 131, 175, 196, 225, 251. *)

\* The request kinds of the protocol.  No decorator of main.py registers for
\* list_tools.
RequestKinds ==
    {"list_tools", "call_tool", "list_resources", "read_resource",
     "list_prompts", "get_prompt"}

\* The decorator applications in the order the module body runs them.  A
\* decorator names the request kind it registers for and nothing else: no
\* tool name is given to server.call_tool().
Decorators ==
    << [kind |-> "call_tool", func |-> "hello_world"],
       [kind |-> "call_tool", func |-> "get_current_time"],
       [kind |-> "call_tool", func |-> "echo"],
       [kind |-> "list_resources", func |-> "handle_list_resources"],
       [kind |-> "read_resource", func |-> "handle_read_resource"],
       [kind |-> "list_prompts", func |-> "handle_list_prompts"],
       [kind |-> "get_prompt", func |-> "handle_get_prompt"] >>

\* One decorator application: the Server keeps one callable per request
\* kind, so registering for a kind replaces what was registered for it.
Register(table, d) == [table EXCEPT ![d.kind] = d.func]

\* the table after the first n decorators
RECURSIVE Registered(_)
Registered(n) ==
    IF n = 0 THEN [k \in RequestKinds |-> "none"]
    ELSE Register(Registered(n - 1), Decorators[n])

---------------------------------------------------------------------------
(* Calls. *)

\* A request: `kind` is a request kind of the protocol, or "direct" for a
\* call of the function `func` itself; `name` is the tool name, the URI or
\* the prompt name; `arg` is echo's message or get_prompt's arguments;
\* `fault` is the internal fault that strikes the try body of a tool
\* handler ("none": no fault).
Request(kind, func, name, arg, fault) ==
    [kind |-> kind, func |-> func, name |-> name, arg |-> arg, fault |-> fault]

NoRequest == Request("none", "", "", PyNone, "none")

\* the number of positional parameters of each function (lines 79, 98, 132,
\* 176, 197, 226, 252)
Arity(func) ==
    CASE func \in {"hello_world", "get_current_time",
                   "handle_list_resources", "handle_list_prompts"} -> 0
      [] func \in {"echo", "handle_read_resource"} -> 1
      [] func = "handle_get_prompt" -> 2

\* The number of positional arguments the Server passes to the callable
\* registered for a kind.  main.py shows the convention in the callables it
\* registers once per kind: a read_resource callable takes (uri), a
\* get_prompt callable takes (name, arguments) and looks at the name
\* itself, the list callables take nothing.  A call_tool callable is passed
\* (name, arguments) in the same way.
Passed(kind) ==
    CASE kind \in {"call_tool", "get_prompt"} -> 2
      [] kind = "read_resource" -> 1
      [] OTHER -> 0

\* The body of `func` run on its own parameters.
Apply(func, name, arg, fault) ==
    CASE func = "hello_world" -> Effect(hello_world(fault), SERVER_INFO)
      [] func = "get_current_time" -> Effect(get_current_time(fault), SERVER_INFO)
      [] func = "echo" -> Effect(echo(arg, fault), SERVER_INFO)
      [] func = "handle_list_resources" -> handle_list_resources
      [] func = "handle_read_resource" -> handle_read_resource(name)
      [] func = "handle_list_prompts" -> handle_list_prompts
      [] func = "handle_get_prompt" -> handle_get_prompt(name, arg)

\* The Server serving a protocol request: the callable registered for the
\* request's kind is called with the arguments of that kind; Python raises
\* TypeError at the call when their number is not the callable's.
Dispatch(req, func) ==
    IF func = "none"
    THEN Effect(Raise("MethodNotFound", <<req.kind>>), SERVER_INFO)
    ELSE IF Arity(func) # Passed(req.kind)
    THEN Effect(Raise("TypeError", <<func, "() takes ">> \o DecStr(Arity(func))
                                   \o <<" positional arguments but ">>
                                   \o DecStr(Passed(req.kind)) \o <<" were given">>),
                SERVER_INFO)
    ELSE Apply(func, req.name, req.arg, req.fault)

\* the callable a request ends at
Callee(req) == IF req.kind = "direct" THEN req.func ELSE request_handlers[req.kind]

\* `result` names the callable that was called and holds what the call produced
NoResult == [handler |-> "", ret |-> Pending]

EmptyLog == [resources |-> {}, prompts |-> {}, reads |-> {}]

\* the responses kept for comparison: the listings and the info reads
Logged(l, func, name, ret) ==
    IF ret.outcome # "return" THEN l
    ELSE CASE func = "handle_list_resources" -> [l EXCEPT !.resources = @ \cup {ret.value}]
           [] func = "handle_list_prompts" -> [l EXCEPT !.prompts = @ \cup {ret.value}]
           [] func = "handle_read_resource" /\ name = INFO_URI ->
                  [l EXCEPT !.reads = @ \cup {ret.value}]
           [] OTHER -> l

---------------------------------------------------------------------------
(* The inputs the model draws. *)

StrsUpTo(S, n) == UNION {[1..k -> S] : k \in 0..n}

Alphabet == {"a", "b", " ", "\t"}

ShortMsgs == StrsUpTo(Alphabet, MaxShortLen)

\* long messages around the limit: one long word, whitespace only, and
\* one-letter words separated by single spaces
LongLens == (MaxMessageLen - LongSpread)..(MaxMessageLen + LongSpread)

LongMsgs ==
    UNION {{[i \in 1..n |-> "a"], [i \in 1..n |-> " "],
            [i \in 1..n |-> IF i % 2 = 1 THEN "a" ELSE " "]} : n \in LongLens}

Messages == {PyStr(m) : m \in ShortMsgs \cup LongMsgs} \cup {PyNone, PyInt(0), PyInt(5)}

Faults == {"none", "OSError", "ValueError"}

LangChars == {"d", "e", "n", "s", "D", "E", "f"}

Langs == StrsUpTo(LangChars, MaxLangLen)

PromptArguments ==
    {PyNone, PyDict(<<>>), PyDict(<<[k |-> "other", v |-> <<"d", "e">>]>>)}
    \cup {PyDict(<<[k |-> "language", v |-> l]>>) : l \in Langs}

PromptNames == {"greeting", "Greeting", "nonexistent"}

Uris == {INFO_URI, "server://unknown", ""}

ToolNames == {"hello_world", "get_current_time", "echo"}

\* calls of the handler functions themselves, with their own parameters
DirectCalls ==
    {Request("direct", f, "", PyNone, x) :
        f \in {"hello_world", "get_current_time"}, x \in Faults}
    \cup {Request("direct", "echo", "", m, x) : m \in Messages, x \in Faults}
    \cup {Request("direct", f, "", PyNone, "none") :
            f \in {"handle_list_resources", "handle_list_prompts"}}
    \cup {Request("direct", "handle_read_resource", u, PyNone, "none") : u \in Uris}
    \cup {Request("direct", "handle_get_prompt", n, a, "none") :
            n \in PromptNames, a \in PromptArguments}

\* requests of the protocol, as the transport delivers them
ProtocolRequests ==
    {Request("call_tool", "", n, a, "none") :
        n \in ToolNames \cup {"unknown_tool"},
        a \in {PyDict(<<>>), PyDict(<<[k |-> "message", v |-> <<"a", "b">>]>>)}}
    \cup {Request(k, "", "", PyNone, "none") :
            k \in {"list_tools", "list_resources", "list_prompts"}}
    \cup {Request("read_resource", "", u, PyNone, "none") : u \in Uris}
    \cup {Request("get_prompt", "", n, a, "none") :
            n \in PromptNames,
            a \in {PyNone, PyDict(<<>>),
                   PyDict(<<[k |-> "language", v |-> <<"D", "E">>]>>),
                   PyDict(<<[k |-> "language", v |-> <<"f">>]>>)}}

---------------------------------------------------------------------------
(* The process. *)

\* The state when the __main__ block starts: the module body has run, so
\* SERVER_INFO holds the clock reading of import time and every decorator
\* has been applied.
Init ==
    /\ pc = "start"
    /\ now \in 0..MaxClock
    /\ \E t \in 0..now : SERVER_INFO = ServerInfoAt(t)
    /\ request_handlers = Registered(Len(Decorators))
    /\ request = NoRequest
    /\ result = NoResult
    /\ log = EmptyLog
    /\ exc = "none"
    /\ ended_by = "none"
    /\ cleanups = 0
    /\ exit_status = -1

\* the system clock advances
Tick ==
    /\ pc \in {"serving", "handling"}
    /\ now < MaxClock
    /\ now' = now + 1
    /\ UNCHANGED <<pc, SERVER_INFO, request_handlers, request, result, log,
                   exc, ended_by, cleanups, exit_status>>

\* main(), lines 336-360, up to server.run(): the transport is set up, or
\* setting it up raises
StartMain ==
    /\ pc = "start"
    /\ \/ /\ pc' = "serving"
          /\ UNCHANGED <<exc, ended_by>>
       \/ /\ pc' = "main_except"
          /\ exc' = "Exception"
          /\ ended_by' = "fault"
    /\ UNCHANGED <<now, SERVER_INFO, request_handlers, request, result, log,
                   cleanups, exit_status>>

\* server.run() takes the next request from the transport
Receive(r) ==
    /\ pc = "serving"
    /\ request' = r
    /\ result' = NoResult
    /\ pc' = "handling"
    /\ UNCHANGED <<now, SERVER_INFO, request_handlers, log, exc, ended_by,
                   cleanups, exit_status>>

\* the request is served: the callable it ends at runs to completion
Handle ==
    /\ pc = "handling"
    /\ LET func == Callee(request)
           out == IF request.kind = "direct"
                  THEN Apply(func, request.name, request.arg, request.fault)
                  ELSE Dispatch(request, func)
       IN  /\ result' = [handler |-> func, ret |-> out.ret]
           /\ SERVER_INFO' = out.stored
           /\ log' = Logged(log, func, request.name, out.ret)
    /\ pc' = "serving"
    /\ UNCHANGED <<now, request_handlers, request, exc, ended_by, cleanups,
                   exit_status>>

\* How server.run() can end: the transport closes ("none": it returns), an
\* interrupt signal arrives (KeyboardInterrupt raised in main(), or, where
\* asyncio.run() handles the signal, the main task cancelled), or a fault
\* escapes (Exception).
Endings == {"none", "KeyboardInterrupt", "CancelledError", "Exception"}

EndedBy(e) ==
    CASE e = "none" -> "normal"
      [] e \in {"KeyboardInterrupt", "CancelledError"} -> "interrupt"
      [] OTHER -> "fault"

EndServe(e) ==
    /\ \/ pc = "serving"
       \/ pc = "handling" /\ e \in {"KeyboardInterrupt", "CancelledError"}
    /\ exc' = e
    /\ ended_by' = EndedBy(e)
    /\ pc' = "main_except"
    /\ UNCHANGED <<now, SERVER_INFO, request_handlers, request, result, log,
                   cleanups, exit_status>>

\* main(), lines 362-366: KeyboardInterrupt is logged and swallowed, an
\* Exception is logged and raised again, anything else passes
MainExcept ==
    /\ pc = "main_except"
    /\ exc' = IF exc = "KeyboardInterrupt" THEN "none" ELSE exc
    /\ pc' = "main_finally"
    /\ UNCHANGED <<now, SERVER_INFO, request_handlers, request, result, log,
                   ended_by, cleanups, exit_status>>

\* main(), lines 367-368: finally: await cleanup()
MainFinally ==
    /\ pc = "main_finally"
    /\ cleanups' = cleanups + 1
    /\ pc' = "outer"
    /\ UNCHANGED <<now, SERVER_INFO, request_handlers, request, result, log,
                   exc, ended_by, exit_status>>

\* an outer block that exits with status 0 whatever reached it
OuterAlwaysZero ==
    /\ pc = "outer"
    /\ exit_status' = 0
    /\ pc' = "exited"
    /\ UNCHANGED <<now, SERVER_INFO, request_handlers, request, result, log,
                   exc, ended_by, cleanups>>

\* the __main__ block, lines 378-384: an Exception out of asyncio.run() is
\* logged and the process exits with status 1; KeyboardInterrupt (which
\* asyncio.run() raises for a cancelled main task) is logged; otherwise,
\* and after the log, the script ends, with status 0
Outer ==
    /\ pc = "outer"
    /\ exit_status' = IF IsException(exc) THEN 1 ELSE 0
    /\ pc' = "exited"
    /\ UNCHANGED <<now, SERVER_INFO, request_handlers, request, result, log,
                   exc, ended_by, cleanups>>

Next ==
    \/ StartMain
    \/ \E r \in ProtocolRequests : Receive(r)
    \/ Handle
    \/ Tick
    \/ \E e \in Endings : EndServe(e)
    \/ MainExcept
    \/ MainFinally
    \/ Outer

Spec == Init /\ [][Next]_vars

\* The handler functions called on their own: every input of DirectCalls, at
\* every clock reading, with the module loaded as in Init.
HandlerInit ==
    /\ pc = "handling"
    /\ now \in 0..MaxClock
    /\ \E t \in 0..now : SERVER_INFO = ServerInfoAt(t)
    /\ request_handlers = Registered(Len(Decorators))
    /\ request \in DirectCalls
    /\ result = NoResult
    /\ log = EmptyLog
    /\ exc = "none"
    /\ ended_by = "none"
    /\ cleanups = 0
    /\ exit_status = -1

HandlerNext == Handle

HandlerSpec == HandlerInit /\ [][HandlerNext]_vars

\* main() and the __main__ block run on once the main loop has ended:
\* nothing in lines 362-384 waits for anything.
FairSpec ==
    Spec /\ WF_vars(MainExcept) /\ WF_vars(MainFinally) /\ WF_vars(Outer)

---------------------------------------------------------------------------
(* Vocabulary of the properties. *)

\* the request has been served and `result` is its outcome
Served == result.ret.outcome # "none"

\* `pat` occurs in `text` as a run of consecutive tokens
Contains(text, pat) ==
    \E i \in 1..(Len(text) - Len(pat) + 1) :
        text[i] = pat[1] /\ SubSeq(text, i, i + Len(pat) - 1) = pat

\* the position of the first token `label` of `text`
IndexOf(text, label) ==
    CHOOSE i \in 1..Len(text) : text[i] = label /\ \A j \in 1..(i - 1) : text[j] # label

\* the number a run of decimal digits denotes
DigitValue(c) == CHOOSE d \in 0..9 : Digit(d) = c

RECURSIVE ParseDec(_)
ParseDec(digits) ==
    IF Len(digits) = 0 THEN 0
    ELSE 10 * ParseDec(SubSeq(digits, 1, Len(digits) - 1)) + DigitValue(digits[Len(digits)])

\* the tokens of `text` strictly between the labels `from` and `to`
Between(text, from, to) == SubSeq(text, IndexOf(text, from) + 1, IndexOf(text, to) - 1)

\* a quoted field with its quotes and the line break after it taken off
Unquoted(field) == SubSeq(field, 2, Len(field) - 2)

\* the text of the one payload a tool handler returned
TextOf(res) == res.ret.value[1].text

\* a served call of the tool handler `func` itself
ToolCallServed(func) == Served /\ request.kind = "direct" /\ request.func = func

\* a served echo of a str, with no internal fault
EchoServed == ToolCallServed("echo") /\ request.fault = "none" /\ request.arg.t = "str"

---------------------------------------------------------------------------
(* Properties. *)

\* C1: every invocation of hello_world(), get_current_time() and
\* echo(message), whatever the input and also when an internal fault is
\* raised while the handler runs, returns a normal result that consists of
\* exactly one text payload; it never ends in a raised error.
C1_ToolHandlersAlwaysReturnOneText ==
    \A f \in ToolNames :
        ToolCallServed(f) =>
            /\ result.handler = f
            /\ result.ret.outcome = "return"
            /\ Len(result.ret.value) = 1
            /\ result.ret.value[1].type = "text"
            /\ Len(result.ret.value[1].text) > 0

\* an internal fault struck get_current_time(), and echo's own len() failed
\* on a message that is no str: both came back as a text
C1_Witness ==
    \/ /\ ToolCallServed("get_current_time")
       /\ request.fault = "OSError"
       /\ TextOf(result)[1] = "Error getting current time: "
    \/ /\ ToolCallServed("echo")
       /\ request.arg = PyInt(5) /\ request.fault = "none"
       /\ TextOf(result)[1] = "Error in echo tool: "

\* C2: read_resource(uri) with a uri other than "server://info", and
\* get_prompt(name, arguments) with a name other than "greeting" whatever
\* the arguments, end in a raised error that carries the offending URI or
\* name; the error reaches the transport as raised, never as a returned
\* text.
C2_UnknownLookupsRaise ==
    Served =>
        /\ (request.kind = "read_resource" /\ request.name # "server://info") =>
               /\ result.handler = "handle_read_resource"
               /\ result.ret.outcome = "raise"
               /\ result.ret.exc = "ValueError"
               /\ Contains(result.ret.msg, <<request.name>>)
        /\ (request.kind = "get_prompt" /\ request.name # "greeting") =>
               /\ result.handler = "handle_get_prompt"
               /\ result.ret.outcome = "raise"
               /\ result.ret.exc = "ValueError"
               /\ Contains(result.ret.msg, <<request.name>>)

C2_Witness ==
    /\ Served
    /\ request.kind = "get_prompt" /\ request.name = "nonexistent"
    /\ request.arg.t = "dict"
    /\ result.ret.outcome = "raise"
    /\ \E r \in log.reads : TRUE

\* C3: the kind of echo's result depends on the length of the message
\* alone: length 0 gives the text with "No message provided", a length
\* above 1000 the text with "too long", and every length from 1 to 1000,
\* 1000 itself and whitespace-only messages included, the echo block.
C3_EchoResultKindByLength ==
    EchoServed =>
        LET n == Len(request.arg.s)
            text == TextOf(result)
        IN  /\ result.ret.outcome = "return"
            /\ n = 0 => Contains(text, <<"No message provided">>)
            /\ n > 1000 => Contains(text, <<"too long">>)
            /\ (1 <= n /\ n <= 1000) <=> text[1] = "Echo Response:"

C3_Witness ==
    /\ EchoServed
    /\ Len(request.arg.s) = 1000
    /\ \A i \in 1..1000 : request.arg.s[i] = " "
    /\ TextOf(result)[1] = "Echo Response:"

\* C4: for a message that passes the validation, the block holds the
\* message unchanged, its length in characters, the message with its
\* characters in reverse order and the number of its whitespace-delimited
\* words (0 for a whitespace-only message); the reported reversed text,
\* reversed, is the message.
C4_EchoBlockContents ==
    (EchoServed /\ Len(request.arg.s) \in 1..1000) =>
        LET m == request.arg.s
            text == TextOf(result)
            original == Unquoted(Between(text, "Original: ", "Length: "))
            length == ParseDec(Between(text, "Length: ", " characters"))
            reversed == Unquoted(Between(text, "Reversed: ", "Word Count: "))
            words == ParseDec(Between(text, "Word Count: ", " words"))
            blank == {" ", "\t", "\n"}
            starts == {i \in 1..Len(m) :
                          m[i] \notin blank /\ (i = 1 \/ m[i - 1] \in blank)}
        IN  /\ original = m
            /\ length = Len(m)
            /\ Len(reversed) = Len(m)
            /\ \A i \in 1..Len(m) : reversed[i] = m[Len(m) + 1 - i]
            /\ [i \in 1..Len(reversed) |-> reversed[Len(reversed) + 1 - i]] = m
            /\ words = Cardinality(starts)
            /\ (\A i \in 1..Len(m) : m[i] \in blank) => words = 0

C4_Witness ==
    /\ EchoServed
    /\ request.arg.s = <<"a", "b", " ">>
    /\ Contains(TextOf(result), <<"Reversed: ", "\"", " ", "b", "a", "\"">>)
    /\ Contains(TextOf(result), <<"Word Count: ", "1", " words">>)

\* C5: get_prompt("greeting", arguments) takes for language the lower-cased
\* arguments["language"] when arguments is present, has the key and the
\* lower-cased value is one of en, de, es, and "en" otherwise; it returns
\* one message of role "user" whose text is the template of that language
\* followed by a footer that lists en, de, es in this order, and a
\* description that names the language.
C5_GreetingLanguage ==
    (Served /\ request.kind = "direct" /\ request.func = "handle_get_prompt"
            /\ request.name = "greeting") =>
        LET a == request.arg
            codes == {<<"e", "n">>, <<"d", "e">>, <<"e", "s">>}
            given == {Lower(a.items[i].v) : i \in {j \in 1..Len(a.items) : a.items[j].k = "language"}}
            lang == IF a.t = "dict" /\ given # {} /\ given \subseteq codes
                    THEN CHOOSE l \in given : TRUE
                    ELSE <<"e", "n">>
            r == result.ret
        IN  /\ r.outcome = "return"
            /\ r.value.description = <<"Friendly greeting in ">> \o lang
            /\ Len(r.value.messages) = 1
            /\ r.value.messages[1].role = "user"
            /\ r.value.messages[1].content.type = "text"
            /\ r.value.messages[1].content.text =
                   TemplateOf(lang)
                   \o <<"\n\n(Available languages: ", "e", "n", ", ", "d", "e", ", ", "e", "s", ")">>

C5_Witness ==
    /\ Served /\ request.kind = "direct" /\ request.func = "handle_get_prompt"
    /\ request.name = "greeting"
    /\ request.arg = PyDict(<<[k |-> "language", v |-> <<"D", "E">>]>>)
    /\ result.ret.value.description = <<"Friendly greeting in ", "d", "e">>

\* C6: each of the tool names hello_world, get_current_time and echo is
\* bound to its own handler: a tool call that names one of them is routed
\* to that handler and to no other, and all three are callable once every
\* registration has been made.
C6_EachToolRoutedToItsHandler ==
    (Served /\ request.kind = "call_tool" /\ request.name \in ToolNames) =>
        /\ result.handler = request.name
        /\ result.ret.outcome = "return"

\* cleanup() has run once exactly when main() has been left, and the exit
\* status is set, at the exit, by how the main loop ended
C7_Shutdown ==
    /\ cleanups = IF pc \in {"outer", "exited"} THEN 1 ELSE 0
    /\ pc = "exited" => exit_status = IF ended_by = "fault" THEN 1 ELSE 0
    /\ pc # "exited" => exit_status = -1

\* C7: every run shuts down through exactly one cleanup notification,
\* however the main loop ended, and then exits with status 0 when the loop
\* ended normally or by an interrupt and with status 1 when a fault
\* escaped it.
C7_OneCleanupThenExit ==
    /\ []C7_Shutdown
    /\ (pc = "main_except") ~> (pc = "exited")

C7_Witness ==
    /\ pc = "exited"
    /\ ended_by = "fault"
    /\ Served
    /\ cleanups = 1
    /\ exit_status = 1

\* the keys of a dict or of a JSON object, in order
KeysOf(d) == [i \in 1..Len(d) |-> d[i].key]

\* the text of the JSON string stored under `key`
JsonString(obj, key) ==
    LET v == obj[CHOOSE i \in 1..Len(obj) : obj[i].key = key].value
    IN  SubSeq(v, 2, Len(v) - 1)

\* the text of the str stored in SERVER_INFO under `key`
StoredString(key) ==
    SERVER_INFO[CHOOSE i \in 1..Len(SERVER_INFO) : SERVER_INFO[i].key = key].value.s

InfoReadServed == Served /\ result.handler = "handle_read_resource" /\ request.name = "server://info"

\* the stored record has its six keys, and an info read returns them plus
\* info_requested_at
C8_StoredKeys ==
    /\ KeysOf(SERVER_INFO) = <<"name", "version", "description", "features", "tools_count", "created">>
    /\ InfoReadServed =>
           /\ result.ret.outcome = "return"
           /\ Len(result.ret.value) = Len(SERVER_INFO) + 1
           /\ {result.ret.value[i].key : i \in 1..Len(result.ret.value)}
                  = {SERVER_INFO[i].key : i \in 1..Len(SERVER_INFO)} \cup {"info_requested_at"}

\* C8: after any sequence of requests the stored ServerMetadata record is
\* what it was at process start: a read of server://info returns a copy
\* whose keys are the stored record's keys plus info_requested_at, and the
\* stored record never gains info_requested_at nor changes its created.
C8_StoredRecordNeverChanges ==
    /\ []C8_StoredKeys
    /\ [][SERVER_INFO' = SERVER_INFO]_vars

C8_Witness ==
    /\ InfoReadServed
    /\ request.kind = "read_resource"
    /\ Cardinality(log.reads) >= 2
    /\ \E i \in 1..Len(result.ret.value) : result.ret.value[i].key = "info_requested_at"

\* the timestamps a read of server://info reported
CreatedOf(obj) == ParseDec(JsonString(obj, "created"))
RequestedAtOf(obj) == ParseDec(JsonString(obj, "info_requested_at"))

\* what the info reads served so far reported
C9_ReadTimestamps ==
    /\ \A r \in log.reads :
           /\ RequestedAtOf(r) >= CreatedOf(r)
           /\ JsonString(r, "created") = StoredString("created")
    /\ \A r1, r2 \in log.reads : CreatedOf(r1) = CreatedOf(r2)

\* C9: in every result of a read of server://info, info_requested_at is at
\* least created; created is the process start timestamp, the same in any
\* two reads; info_requested_at is the clock's reading at the read.
C9_CreatedFixedRequestedFresh ==
    /\ []C9_ReadTimestamps
    /\ [][(pc = "handling" /\ pc' = "serving" /\ InfoReadServed')
              => RequestedAtOf(result'.ret.value) = now]_vars

C9_Witness ==
    /\ InfoReadServed
    /\ \E r1, r2 \in log.reads :
           /\ RequestedAtOf(r1) # RequestedAtOf(r2)
           /\ CreatedOf(r1) = CreatedOf(r2)
           /\ RequestedAtOf(r1) > CreatedOf(r1)
           /\ RequestedAtOf(r2) = CreatedOf(r2)

\* C10: list_resources() and list_prompts() return the same descriptors at
\* every call, whatever was served in between: one resource descriptor,
\* with uri "server://info", and one prompt descriptor, named "greeting",
\* with the one optional argument "language".
C10_ListingsFixed ==
    /\ Cardinality(log.resources) <= 1
    /\ Cardinality(log.prompts) <= 1
    /\ \A l \in log.resources : Len(l) = 1 /\ l[1].uri = "server://info"
    /\ \A l \in log.prompts :
           /\ Len(l) = 1
           /\ l[1].name = "greeting"
           /\ Len(l[1].arguments) = 1
           /\ l[1].arguments[1].name = "language"
           /\ l[1].arguments[1].required = FALSE
    /\ (Served /\ request.kind = "list_resources") => result.ret.value \in log.resources
    /\ (Served /\ request.kind = "list_prompts") => result.ret.value \in log.prompts

C10_Witness ==
    /\ Served /\ request.kind = "list_resources"
    /\ log.resources # {} /\ log.prompts # {}
    /\ Cardinality(log.reads) >= 2
    /\ now = MaxClock

=============================================================================
